---- MODULE Spec2Model ----
(***************************************************************************)
(* Model of the doc-compiler web application: the discover API route       *)
(* (sitemap / navigation discovery, concurrent per-page analysis,          *)
(* categorisation), the compile API route, and the page that calls them.   *)
(*                                                                         *)
(* URLs, error messages and size strings are TLA+ strings; the string      *)
(* methods of the source (includes, toLowerCase, match(/\/api$/)) are      *)
(* computed character by character.  A JavaScript object used as an        *)
(* ordered map is a sequence of <<key, value>> entries in insertion order. *)
(***************************************************************************)
EXTENDS Integers, Sequences, FiniteSets, TLC

VARIABLES
    site,        \* the documentation site the request is about (environment)
    req,         \* the HTTP request: route, method, body.url
    pc,          \* position of the request handler
    sitemapTask, \* discoverSitemap(url): the probe in flight, or its value
    mainTask,    \* fetchMainPageInfo(url): pending, fulfilled or rejected
    navTask,     \* discoverNavigationLinks(url): pending or its value
    allUrls,     \* the deduplicated candidate list
    pageSlots,   \* the array Promise.all resolves to, one slot per promise
    pageOutcome, \* what the network answered to each per-page fetch of
                 \* discover, or to the one fetch of compile
    outOfOrder,  \* some per-page fetch completed before an earlier one
    fetchLog,    \* every fetch issued so far, in the order of the calls
    response,    \* what res.status(..).json(..) sent
    fn,          \* name of the pure function under evaluation
    arg,         \* its argument
    out,         \* its result: [done |-> FALSE] until applied
    home,        \* the state of the page component Home (its useState hooks)
    inFlight,    \* the requests the page has sent and not yet got answered
    lastEvent,   \* the handler or continuation that ran last, and the state
                 \* of Home it started from
    sinceReset   \* resetDiscovery ran and no request was started after it

reqVars == <<site, req, pc, sitemapTask, mainTask, navTask, allUrls, pageSlots,
             pageOutcome, outOfOrder, fetchLog, response>>

fnVars == <<fn, arg, out>>

uiVars == <<home, inFlight, lastEvent, sinceReset>>

vars == <<reqVars, fnVars, uiVars>>

(***************************************************************************)
(* String methods                                                          *)
(***************************************************************************)
UpperChars == "ABCDEFGHIJKLMNOPQRSTUVWXYZ"

LowerChars == "abcdefghijklmnopqrstuvwxyz"

\* String.prototype.includes
Includes(s, p) ==
    \E i \in 1..(Len(s) - Len(p) + 1) : SubSeq(s, i, i + Len(p) - 1) = p

\* s.match(/p$/) for a literal p
EndsWith(s, p) ==
    Len(s) >= Len(p) /\ SubSeq(s, Len(s) - Len(p) + 1, Len(s)) = p

\* String.prototype.startsWith
StartsWith(s, p) ==
    Len(s) >= Len(p) /\ SubSeq(s, 1, Len(p)) = p

LowerChar(c) ==
    IF \E i \in 1..Len(UpperChars) : SubSeq(UpperChars, i, i) = c
    THEN LET i == CHOOSE k \in 1..Len(UpperChars) : SubSeq(UpperChars, k, k) = c
         IN  SubSeq(LowerChars, i, i)
    ELSE c

\* String.prototype.toLowerCase
RECURSIVE ToLowerCase(_)
ToLowerCase(s) ==
    IF Len(s) = 0 THEN ""
    ELSE LowerChar(SubSeq(s, 1, 1)) \o ToLowerCase(SubSeq(s, 2, Len(s)))

(***************************************************************************)
(* Categorizer                                                             *)
(***************************************************************************)
priorityOrder ==
    << "Getting Started", "API Reference", "Guides & Tutorials",
       "Examples", "Concepts", "General Documentation" >>

\* categorizeUrl with the getting-started rule tried before the guide rule (mutant)
categorizeUrlStartFirst(url) ==
    LET path == ToLowerCase(url) IN
    IF \/ Includes(path, "/api/") \/ Includes(path, "/reference/")
       \/ Includes(path, "/ref/") \/ EndsWith(path, "/api")
       \/ Includes(path, "reference")
    THEN "API Reference"
    ELSE IF \/ Includes(path, "/example/") \/ Includes(path, "/examples/")
            \/ Includes(path, "/sample/") \/ Includes(path, "example")
    THEN "Examples"
    ELSE IF \/ Includes(path, "/quick") \/ Includes(path, "/start")
            \/ Includes(path, "/getting") \/ Includes(path, "quickstart")
            \/ Includes(path, "introduction")
    THEN "Getting Started"
    ELSE IF \/ Includes(path, "/guide/") \/ Includes(path, "/guides/")
            \/ Includes(path, "/tutorial/") \/ Includes(path, "/tutorials/")
            \/ Includes(path, "guide") \/ Includes(path, "tutorial")
    THEN "Guides & Tutorials"
    ELSE IF \/ Includes(path, "/concept/") \/ Includes(path, "/concepts/")
            \/ Includes(path, "/overview/") \/ Includes(path, "concept")
            \/ Includes(path, "overview")
    THEN "Concepts"
    ELSE "General Documentation"

categorizeUrl(url) ==
    LET path == ToLowerCase(url) IN
    IF \/ Includes(path, "/api/") \/ Includes(path, "/reference/")
       \/ Includes(path, "/ref/") \/ EndsWith(path, "/api")
       \/ Includes(path, "reference")
    THEN "API Reference"
    ELSE IF \/ Includes(path, "/example/") \/ Includes(path, "/examples/")
            \/ Includes(path, "/sample/") \/ Includes(path, "example")
    THEN "Examples"
    ELSE IF \/ Includes(path, "/guide/") \/ Includes(path, "/guides/")
            \/ Includes(path, "/tutorial/") \/ Includes(path, "/tutorials/")
            \/ Includes(path, "guide") \/ Includes(path, "tutorial")
    THEN "Guides & Tutorials"
    ELSE IF \/ Includes(path, "/quick") \/ Includes(path, "/start")
            \/ Includes(path, "/getting") \/ Includes(path, "quickstart")
            \/ Includes(path, "introduction")
    THEN "Getting Started"
    ELSE IF \/ Includes(path, "/concept/") \/ Includes(path, "/concepts/")
            \/ Includes(path, "/overview/") \/ Includes(path, "concept")
            \/ Includes(path, "overview")
    THEN "Concepts"
    ELSE "General Documentation"

(***************************************************************************)
(* Arrays                                                                  *)
(***************************************************************************)
\* Array.prototype.indexOf, 1-based; 0 when absent
IndexOf(arr, u) ==
    IF \E i \in 1..Len(arr) : arr[i] = u
    THEN CHOOSE i \in 1..Len(arr) : arr[i] = u /\ \A j \in 1..(i-1) : arr[j] # u
    ELSE 0

\* Array.prototype.lastIndexOf, 1-based
LastIndexOf(arr, u) ==
    IF \E i \in 1..Len(arr) : arr[i] = u
    THEN CHOOSE i \in 1..Len(arr) : arr[i] = u /\ \A j \in (i+1)..Len(arr) : arr[j] # u
    ELSE 0

\* Array.prototype.filter: the elements at the indices of keep, in array order
FilterByIndex(arr, keep) ==
    LET n    == Cardinality(keep)
        nth  == [k \in 1..n |->
                    CHOOSE i \in keep : Cardinality({j \in keep : j < i}) = k - 1]
    IN  IF n = 0 THEN <<>> ELSE SubSeq([k \in 1..n |-> arr[nth[k]]], 1, n)

(***************************************************************************)
(* Ordered maps (JavaScript objects with string keys): a sequence of       *)
(* <<key, value>> entries in insertion order.                              *)
(***************************************************************************)
Keys(m) == [i \in 1..Len(m) |-> m[i][1]]

HasKey(m, k) == \E i \in 1..Len(m) : m[i][1] = k

Get(m, k) == m[CHOOSE i \in 1..Len(m) : m[i][1] = k][2]

\* m[k] = v: a new key goes last, an existing key keeps its place
Put(m, k, v) ==
    IF HasKey(m, k)
    THEN [i \in 1..Len(m) |-> IF m[i][1] = k THEN <<k, v>> ELSE m[i]]
    ELSE Append(m, <<k, v>>)

\* the grouping loop assigning [page] to the key instead of pushing: every
\* category holds its last page only (mutant)
GroupByCategoryOverwriting(pages) ==
    LET category == [i \in 1..Len(pages) |-> pages[i].category]
        created  == FilterByIndex(category,
                        {i \in 1..Len(pages) : IndexOf(category, category[i]) = i})
    IN  [k \in 1..Len(created) |->
            <<created[k], <<pages[LastIndexOf(category, created[k])]>> >>]

\* the grouping loop of categorizePages: a key is created by the first page
\* of its category, and every page is pushed onto the array of its category,
\* so the keys stand in first-seen order and each array in page order
GroupByCategory(pages) ==
    LET category == [i \in 1..Len(pages) |-> pages[i].category]
        created  == FilterByIndex(category,
                        {i \in 1..Len(pages) : IndexOf(category, category[i]) = i})
    IN  [k \in 1..Len(created) |->
            <<created[k], SelectSeq(pages, LAMBDA page : page.category = created[k])>>]

\* categorizePages without the priority pass: insertion order only (mutant)
categorizePagesUnsorted(pages) == GroupByCategory(pages)

categorizePages(pages) ==
    LET categories == GroupByCategory(pages)
        \* priorityOrder.forEach
        P[i \in 0..Len(priorityOrder)] ==
            IF i = 0 THEN <<>>
            ELSE IF HasKey(categories, priorityOrder[i])
                 THEN Put(P[i-1], priorityOrder[i], Get(categories, priorityOrder[i]))
                 ELSE P[i-1]
        \* Object.keys(categories).forEach
        R[i \in 0..Len(categories)] ==
            IF i = 0 THEN P[Len(priorityOrder)]
            ELSE LET r == R[i-1]
                 IN  IF ~HasKey(r, categories[i][1])
                     THEN Put(r, categories[i][1], categories[i][2])
                     ELSE r
    IN  R[Len(categories)]

(***************************************************************************)
(* Candidate list                                                          *)
(***************************************************************************)
\* keeps the last occurrence of every URL instead of the first (mutant)
DedupKeepLast(arr) ==
    FilterByIndex(arr, {i \in 1..Len(arr) : LastIndexOf(arr, arr[i]) = i})

\* arr.filter((u, i, arr) => arr.indexOf(u) === i)
Dedup(arr) ==
    FilterByIndex(arr, {i \in 1..Len(arr) : IndexOf(arr, arr[i]) = i})

\* the candidate list without the links of the navigation (mutant)
allUrlsOfSitemapOnly(url, sitemapResult, navigationResult) ==
    Dedup(<<url>> \o sitemapResult)

\* [url, ...sitemapResult, ...navigationResult].filter(first occurrence)
allUrlsOf(url, sitemapResult, navigationResult) ==
    Dedup(<<url>> \o sitemapResult \o navigationResult)

(***************************************************************************)
(* Size strings                                                            *)
(***************************************************************************)
Digits == "0123456789"

IsDigit(c) == \E i \in 1..Len(Digits) : SubSeq(Digits, i, i) = c

DigitValue(c) == (CHOOSE i \in 1..Len(Digits) : SubSeq(Digits, i, i) = c) - 1

\* s.replace(/[^\d.]/g, '') with dots = TRUE, s.replace(/[^\d]/g, '') otherwise
RECURSIVE StripNonNumeric(_, _)
StripNonNumeric(s, dots) ==
    IF Len(s) = 0 THEN ""
    ELSE LET c == SubSeq(s, 1, 1)
             t == StripNonNumeric(SubSeq(s, 2, Len(s)), dots)
         IN  IF IsDigit(c) \/ (dots /\ c = ".") THEN c \o t ELSE t

\* value of the leading run of digits of s; -1 (NaN) when there is none
ParseInt(s) ==
    LET n == IF \E k \in 1..Len(s) : ~IsDigit(SubSeq(s, k, k))
             THEN (CHOOSE k \in 1..Len(s) :
                      /\ ~IsDigit(SubSeq(s, k, k))
                      /\ \A j \in 1..(k-1) : IsDigit(SubSeq(s, j, j))) - 1
             ELSE Len(s)
         V[i \in 0..n] == IF i = 0 THEN 0
                          ELSE 10 * V[i-1] + DigitValue(SubSeq(s, i, i))
    IN  IF n = 0 THEN -1 ELSE V[n]

\* parseFloat(s) * 1000 for a decimal s with at most three fractional digits
ParseFloatTimes1000(s) ==
    LET whole == ParseInt(s)
        dot   == IF Includes(s, ".")
                 THEN CHOOSE k \in 1..Len(s) :
                          /\ SubSeq(s, k, k) = "."
                          /\ \A j \in 1..(k-1) : SubSeq(s, j, j) # "."
                 ELSE Len(s) + 1
        frac  == SubSeq(s, dot + 1, Len(s))
        D(i)  == IF i <= Len(frac) /\ IsDigit(SubSeq(frac, i, i))
                 THEN DigitValue(SubSeq(frac, i, i)) ELSE 0
    IN  (IF whole < 0 THEN 0 ELSE whole) * 1000 + 100 * D(1) + 10 * D(2) + D(3)

\* thousands rounded down, Math.floor(chars / 1000) (mutant)
formatSizeFloorThousands(chars) ==
    IF chars < 1000 THEN ToString(chars) \o " chars"
    ELSE IF chars < 10000
         THEN LET q == (chars + 50) \div 100
              IN  ToString(q \div 10)
                  \o (IF q % 10 = 0 THEN "" ELSE "." \o ToString(q % 10))
                  \o "k chars"
         ELSE ToString(chars \div 1000) \o "k chars"

\* tenths rounded down, Math.floor(chars / 100) / 10 (mutant)
formatSizeFloorTenths(chars) ==
    IF chars < 1000 THEN ToString(chars) \o " chars"
    ELSE IF chars < 10000
         THEN LET q == chars \div 100
              IN  ToString(q \div 10)
                  \o (IF q % 10 = 0 THEN "" ELSE "." \o ToString(q % 10))
                  \o "k chars"
         ELSE ToString((chars + 500) \div 1000) \o "k chars"

\* the last band divided by 10000, Math.round(chars / 10000) (mutant)
formatSizeWrongDivisor(chars) ==
    IF chars < 1000 THEN ToString(chars) \o " chars"
    ELSE IF chars < 10000
         THEN LET q == (chars + 50) \div 100
              IN  ToString(q \div 10)
                  \o (IF q % 10 = 0 THEN "" ELSE "." \o ToString(q % 10))
                  \o "k chars"
         ELSE ToString((chars + 5000) \div 10000) \o "k chars"

\* Math.round(x / 100) / 10 prints without a fraction when it is whole
formatSize(chars) ==
    IF chars < 1000 THEN ToString(chars) \o " chars"
    ELSE IF chars < 10000
         THEN LET q == (chars + 50) \div 100
              IN  ToString(q \div 10)
                  \o (IF q % 10 = 0 THEN "" ELSE "." \o ToString(q % 10))
                  \o "k chars"
         ELSE ToString((chars + 500) \div 1000) \o "k chars"

\* the k value read with parseInt, which stops at the dot (mutant)
parseSizeIntegerK(estimatedSize) ==
    LET sizeStr == ToLowerCase(estimatedSize)
        n == ParseInt(StripNonNumeric(sizeStr, FALSE))
    IN  IF Includes(sizeStr, "k")
        THEN LET k == ParseInt(StripNonNumeric(sizeStr, TRUE))
             IN  IF k < 0 THEN 0 ELSE k * 1000
        ELSE IF n < 0 THEN 0 ELSE n

\* the body of the reduce callback: the character count a size string denotes
parseSize(estimatedSize) ==
    LET sizeStr == ToLowerCase(estimatedSize)
    IN  IF Includes(sizeStr, "k")
        THEN ParseFloatTimes1000(StripNonNumeric(sizeStr, TRUE))
        ELSE LET n == ParseInt(StripNonNumeric(sizeStr, FALSE))
             IN  IF n < 0 THEN 0 ELSE n

\* the reduce over pages[lo..hi]; the sum is split in two halves, which
\* integer addition allows
RECURSIVE sumChars(_, _, _)
sumChars(pages, lo, hi) ==
    IF lo > hi THEN 0
    ELSE IF lo = hi THEN parseSize(pages[lo].estimatedSize)
    ELSE LET mid == (lo + hi) \div 2
         IN  sumChars(pages, lo, mid) + sumChars(pages, mid + 1, hi)

\* pages.reduce((sum, page) => sum + chars, 0)
totalEstimatedChars(pages) == sumChars(pages, 1, Len(pages))

\* Math.round(textContent.length * 0.7), exact for lengths that are not
\* 5 modulo 10 (the documents below have lengths that are multiples of 10)
estimateContentSize(textLength) == formatSize((7 * textLength + 5) \div 10)

(***************************************************************************)
(* URLs                                                                    *)
(***************************************************************************)
\* new URL(url) succeeds: the string starts with a scheme, letters then ":"
UrlParses(url) ==
    \E k \in 2..Len(url) :
        /\ SubSeq(url, k, k) = ":"
        /\ \A j \in 1..(k-1) : Includes(LowerChars, LowerChar(SubSeq(url, j, j)))

\* new URL(url).origin: scheme, "://" and authority
Origin(url) ==
    LET a == CHOOSE k \in 1..Len(url) :
                 /\ SubSeq(url, k, k + 2) = "://"
                 /\ \A j \in 1..(k-1) : SubSeq(url, j, j + 2) # "://"
        slashes == {k \in (a + 3)..Len(url) : SubSeq(url, k, k) = "/"}
    IN  IF slashes = {} THEN url
        ELSE SubSeq(url, 1, (CHOOSE k \in slashes : \A j \in slashes : k <= j) - 1)

(***************************************************************************)
(* The network: sites, documents, fetch outcomes                           *)
(***************************************************************************)
\* what one documentation site serves: the <loc> entries of its sitemap and
\* the links extractNavigationLinks returns for its main page
Sites ==
    { [seed |-> "https://docs.example.com",
       locs |-> << "https://docs.example.com/docs/intro",
                   "https://docs.example.com/api/widgets",
                   "https://docs.example.com/blog/news" >>,
       navigationUrls |-> <<>>],
      [seed |-> "https://x.com",
       locs |-> << "https://x.com/guide/start", "https://x.com",
                   "https://x.com/blog/post", "https://x.com/guide/start" >>,
       navigationUrls |-> << "https://x.com/api/widgets",
                             "https://x.com/guide/start" >>],
      [seed |-> "https://x.com/docs",
       locs |-> <<>>,
       navigationUrls |-> << "https://x.com/docs", "https://x.com/quickstart" >>] }

\* the HTML of a page, reduced to what the extractors read: the <title> and
\* <h1> texts ("" when absent), the description, and the length of the
\* text that is left when the tags are stripped
Documents ==
    [u \in {"https://docs.example.com", "https://x.com/guide/start", "https://x.com"}
       |-> CASE u = "https://docs.example.com" ->
                    [title |-> "Example Docs", h1 |-> "Welcome",
                     description |-> "", textLength |-> 1000]
             [] u = "https://x.com/guide/start" ->
                    [title |-> "", h1 |-> "Start", description |-> "",
                     textLength |-> 6500]
             [] u = "https://x.com" ->
                    [title |-> "", h1 |-> "", description |-> "",
                     textLength |-> 20000]]

DocumentAt(u) ==
    IF u \in DOMAIN Documents THEN Documents[u]
    ELSE [title |-> "Docs: " \o u, h1 |-> "", description |-> "", textLength |-> 400]

HttpErrorStatuses == {404, 503}

statusText(status) ==
    CASE status = 404 -> "Not Found"
      [] status = 503 -> "Service Unavailable"
      [] OTHER -> ""

\* outcome of one fetch: a 2xx response, a non-2xx response, the abort of
\* AbortSignal.timeout, or a rejected fetch (DNS, connect, TLS)
Outcomes ==
    {[kind |-> "2xx"], [kind |-> "timeout"], [kind |-> "unreachable"]}
    \cup {[kind |-> "non2xx", status |-> c] : c \in HttpErrorStatuses}

\* a rejection whose Error carries no message (mutant)
rejectionMessageEmpty(outcome) == ""

\* message of the error fetch rejects with (runtime)
rejectionMessage(outcome) ==
    IF outcome.kind = "timeout" THEN "The operation was aborted due to timeout"
    ELSE "fetch failed"

\* message of the Error a fetching function ends with on a failed outcome
httpErrorMessage(outcome) ==
    IF outcome.kind = "non2xx"
    THEN "HTTP " \o ToString(outcome.status) \o ": " \o statusText(outcome.status)
    ELSE rejectionMessage(outcome)

(***************************************************************************)
(* Extractors                                                              *)
(***************************************************************************)
\* titleMatch || h1Match || fallback
extractTitle(doc, fallback) ==
    IF doc.title # "" THEN doc.title
    ELSE IF doc.h1 # "" THEN doc.h1
    ELSE fallback

extractDescription(doc) == doc.description

\* the filter applied to the path of the URL only (mutant)
keepSitemapUrlByPath(url) ==
    LET lowerUrl == ToLowerCase(SubSeq(url, Len(Origin(url)) + 1, Len(url)))
    IN  \/ Includes(lowerUrl, "/docs") \/ Includes(lowerUrl, "/api")
        \/ Includes(lowerUrl, "/guide") \/ Includes(lowerUrl, "/reference")
        \/ Includes(lowerUrl, "/tutorial") \/ Includes(lowerUrl, "/examples")
        \/ Includes(lowerUrl, "/ref/") \/ Includes(lowerUrl, "/documentation")
        \/ /\ ~Includes(lowerUrl, "/blog") /\ ~Includes(lowerUrl, "/changelog")
           /\ ~Includes(lowerUrl, "/careers") /\ ~Includes(lowerUrl, "/about")
           /\ ~Includes(lowerUrl, "/contact") /\ ~Includes(lowerUrl, "/privacy")
           /\ ~Includes(lowerUrl, "/terms")

\* the filter discoverSitemap applies to the <loc> URLs
keepSitemapUrl(url) ==
    LET lowerUrl == ToLowerCase(url)
    IN  \/ Includes(lowerUrl, "/docs") \/ Includes(lowerUrl, "/api")
        \/ Includes(lowerUrl, "/guide") \/ Includes(lowerUrl, "/reference")
        \/ Includes(lowerUrl, "/tutorial") \/ Includes(lowerUrl, "/examples")
        \/ Includes(lowerUrl, "/ref/") \/ Includes(lowerUrl, "/documentation")
        \/ /\ ~Includes(lowerUrl, "/blog") /\ ~Includes(lowerUrl, "/changelog")
           /\ ~Includes(lowerUrl, "/careers") /\ ~Includes(lowerUrl, "/about")
           /\ ~Includes(lowerUrl, "/contact") /\ ~Includes(lowerUrl, "/privacy")
           /\ ~Includes(lowerUrl, "/terms")

sitemapUrls(baseUrl) ==
    << Origin(baseUrl) \o "/sitemap.xml",
       Origin(baseUrl) \o "/sitemap_index.xml",
       Origin(baseUrl) \o "/docs/sitemap.xml" >>

(***************************************************************************)
(* discover: per-page analysis                                             *)
(***************************************************************************)
DiscoverCap == 50

Min(a, b) == IF a < b THEN a ELSE b

\* the per-page pass without the limit (mutant)
pageBatchUncapped(urls) == urls

\* allUrls.slice(0, 50)
pageBatch(urls) == SubSeq(urls, 1, Min(DiscoverCap, Len(urls)))

Pending == [state |-> "pending"]

Null == [state |-> "null"]

\* getPageInfo without the response.ok test (mutant)
pageInfoOrNullIgnoringStatus(pageUrl, outcome) ==
    IF outcome.kind \in {"2xx", "non2xx"}
    THEN [state |-> "page",
          info  |-> [url |-> pageUrl,
                     title |-> extractTitle(DocumentAt(pageUrl), "Documentation Page"),
                     category |-> categorizeUrl(pageUrl),
                     description |-> extractDescription(DocumentAt(pageUrl)),
                     estimatedSize |-> estimateContentSize(DocumentAt(pageUrl).textLength)]]
    ELSE Null

\* one promise of pageInfoPromises: getPageInfo(pageUrl), null when it throws
pageInfoOrNull(pageUrl, outcome) ==
    IF outcome.kind = "2xx"
    THEN [state |-> "page",
          info  |-> [url |-> pageUrl,
                     title |-> extractTitle(DocumentAt(pageUrl), "Documentation Page"),
                     category |-> categorizeUrl(pageUrl),
                     description |-> extractDescription(DocumentAt(pageUrl)),
                     estimatedSize |-> estimateContentSize(DocumentAt(pageUrl).textLength)]]
    ELSE Null

\* results collected in the order of completion, not by index (mutant)
settleSlotInCompletionOrder(slots, i, v) ==
    LET k == CHOOSE k \in 1..Len(slots) :
                 slots[k] = Pending /\ \A j \in 1..(k-1) : slots[j] # Pending
    IN  [slots EXCEPT ![k] = v]

\* Promise.all: the result of promise i is element i of the array
settleSlot(slots, i, v) == [slots EXCEPT ![i] = v]

\* (await Promise.all(pageInfoPromises)).filter(Boolean)
nonNullPages(slots) ==
    LET kept == FilterByIndex(slots, {i \in 1..Len(slots) : slots[i].state = "page"})
    IN  [k \in 1..Len(kept) |-> kept[k].info]

\* the value discoverDocumentationStructure returns
discoveryReport(url, mainPageInfo, pages) ==
    [baseUrl |-> url,
     title |-> mainPageInfo.title,
     totalPages |-> Len(pages),
     categories |-> categorizePages(pages),
     estimatedTotalSize |-> formatSize(totalEstimatedChars(pages))]

\* discovery also fails when no strategy found a URL (mutant)
mainPageMissingOrNothingFound(main, sitemapResult, navigationResult) ==
    \/ main.state # "fulfilled"
    \/ (sitemapResult = <<>> /\ navigationResult = <<>>)

\* !mainPageInfo: the main-page promise was rejected
mainPageMissing(main, sitemapResult, navigationResult) ==
    main.state # "fulfilled"

\* the throw carrying the reason fetchMainPageInfo was rejected with (mutant)
mainPageErrorFromReason(main) == main.reason

\* message of the Error thrown when the main page is missing; the reason of
\* the rejection was dropped with the result of Promise.allSettled
mainPageError(main) == "Failed to fetch main page information"

(***************************************************************************)
(* compile                                                                 *)
(***************************************************************************)
MaxClockAdvance == 1

\* the catch of the compile handler keeping the fixed message (mutant)
compileFailureGeneric(outcome) ==
    [success |-> FALSE, error |-> "Compilation failed"]

\* the body of the 500 response: error.message of what
\* compileDocumentationSimple threw
compileFailure(outcome) ==
    [success |-> FALSE, error |-> httpErrorMessage(outcome)]

\* the value compileDocumentationSimple returns; t1 and t2 are the two
\* readings of new Date()
compiledDocument(url, doc, t1, t2) ==
    LET title == extractTitle(doc, "Documentation")
    IN  [content  |-> [title |-> title, source |-> url, compiled |-> t1,
                       bodyLength |-> Min(doc.textLength, 2000) + 3],
         metadata |-> [title |-> title, sourceUrl |-> url, compiledAt |-> t2,
                       totalPages |-> 1]]

(***************************************************************************)
(* The request handlers                                                    *)
(***************************************************************************)
Idle == [state |-> "idle"]

NotSent == [sent |-> FALSE]

Send(status, body) == [sent |-> TRUE, status |-> status, body |-> body]

\* milliseconds of the AbortSignal.timeout a fetch is given at each call
\* site; 0 for the fetch of compile, which is given no signal
fetchTimeout(kind) ==
    CASE kind = "sitemap" -> 8000
      [] kind \in {"main", "navigation", "page"} -> 10000
      [] kind = "compile" -> 0

\* a call of fetch
Fetch(kind, url) == [kind |-> kind, url |-> url, timeout |-> fetchTimeout(kind)]

\* the selections the page sends with a compile request: none (the simple
\* form), or pages of the discovery report
Selections(s) ==
    LET found == s.locs \o s.navigationUrls
    IN  {<<>>, <<found[1]>>, <<s.seed, found[1]>>}

\* req.method and req.body; selectedPages = <<>> stands for a body without it
Requests(s) ==
    [route : {"discover"}, method : {"POST", "GET"},
     url : {s.seed, "", "docs.example.com"}, selectedPages : {<<>>}]
    \cup [route : {"compile"}, method : {"POST", "GET"},
          url : {s.seed, "", "docs.example.com"}, selectedPages : Selections(s)]

InitRequest ==
    /\ req \in Requests(site)
    /\ pc = "received"
    /\ sitemapTask = Idle /\ mainTask = Idle /\ navTask = Idle
    /\ allUrls = <<>> /\ pageSlots = <<>> /\ pageOutcome = <<>>
    /\ outOfOrder = FALSE
    /\ fetchLog = <<>>
    /\ response = NotSent

\* the checks without the one of the method (mutant)
requestRejectionAnyMethod(r) ==
    IF r.url = ""
    THEN Send(400, [success |-> FALSE, error |-> "URL is required"])
    ELSE IF ~UrlParses(r.url)
    THEN Send(400, [success |-> FALSE, error |-> "Invalid URL format"])
    ELSE NotSent

\* the checks both handlers start with: the response that rejects the
\* request, NotSent when the request passes
requestRejection(r) ==
    IF r.method # "POST"
    THEN Send(405, [success |-> FALSE, error |-> "Method not allowed"])
    ELSE IF r.url = ""
    THEN Send(400, [success |-> FALSE, error |-> "URL is required"])
    ELSE IF ~UrlParses(r.url)
    THEN Send(400, [success |-> FALSE, error |-> "Invalid URL format"])
    ELSE NotSent

\* handler, up to its first await: the checks of the request, then the
\* start of compileDocumentationSimple or discoverDocumentationStructure
HandleRequest ==
    /\ pc = "received"
    /\ IF requestRejection(req) # NotSent
       THEN /\ response' = requestRejection(req)
            /\ pc' = "done"
            /\ UNCHANGED <<sitemapTask, mainTask, navTask, fetchLog>>
       ELSE IF req.route = "compile"
       THEN /\ pc' = "compiling"
            /\ fetchLog' = <<Fetch("compile", req.url)>>
            /\ UNCHANGED <<sitemapTask, mainTask, navTask, response>>
       ELSE /\ pc' = "discovering"
            /\ sitemapTask' = [state |-> "probing", index |-> 1, answers |-> <<>>]
            /\ mainTask' = Pending
            /\ navTask' = Pending
            /\ fetchLog' = << Fetch("sitemap", sitemapUrls(req.url)[1]),
                              Fetch("main", req.url),
                              Fetch("navigation", req.url) >>
            /\ UNCHANGED response
    /\ UNCHANGED <<site, req, allUrls, pageSlots, pageOutcome, outOfOrder, fnVars, uiVars>>

\* compileDocumentationSimple after its fetch, and the rest of the handler
CompileFetchSettles ==
    /\ pc = "compiling"
    /\ \E outcome \in Outcomes \ {[kind |-> "timeout"]} :
        /\ pageOutcome' = <<outcome>>
        /\ IF outcome.kind = "2xx"
          THEN \E d \in 0..MaxClockAdvance :
                  LET compiledContent ==
                          compiledDocument(req.url, DocumentAt(req.url), 0, d)
                  IN  response' = Send(200, [success |-> TRUE,
                                             content |-> compiledContent.content,
                                             metadata |-> compiledContent.metadata])
          ELSE response' = Send(500, compileFailure(outcome))
    /\ pc' = "done"
    /\ UNCHANGED <<site, req, sitemapTask, mainTask, navTask, allUrls, pageSlots,
                   outOfOrder, fetchLog, fnVars, uiVars>>

\* the loop goes on to the next sitemap when the one answered lists no URL
\* (mutant)
sitemapAnsweredWithUrls(outcome, urls) == outcome.kind = "2xx" /\ urls # <<>>

\* if (response.ok): the loop of discoverSitemap returns from this probe
sitemapAnswered(outcome, urls) == outcome.kind = "2xx"

\* one iteration of the loop of discoverSitemap: the answer to the probe;
\* answers keeps, probe by probe, whether the answer was a 2xx
SitemapProbeSettles ==
    /\ pc = "discovering"
    /\ sitemapTask.state = "probing"
    /\ \E outcome \in Outcomes :
       \E urls \in (IF outcome.kind = "2xx" THEN {site.locs, <<>>} ELSE {<<>>}) :
          LET answers == Append(sitemapTask.answers, outcome.kind = "2xx")
          IN  IF sitemapAnswered(outcome, urls)
              THEN /\ sitemapTask' = [state |-> "fulfilled",
                                      value |-> SelectSeq(urls, keepSitemapUrl),
                                      answeredBy |-> sitemapTask.index,
                                      xml |-> urls,
                                      answers |-> answers]
                   /\ UNCHANGED fetchLog
              ELSE IF sitemapTask.index < Len(sitemapUrls(req.url))
              THEN /\ sitemapTask' = [state |-> "probing",
                                      index |-> sitemapTask.index + 1,
                                      answers |-> answers]
                   /\ fetchLog' = Append(fetchLog,
                          Fetch("sitemap", sitemapUrls(req.url)[sitemapTask.index + 1]))
              ELSE /\ sitemapTask' = [state |-> "fulfilled", value |-> <<>>,
                                      answeredBy |-> 0, xml |-> <<>>,
                                      answers |-> answers]
                   /\ UNCHANGED fetchLog
    /\ UNCHANGED <<site, req, pc, mainTask, navTask, allUrls, pageSlots,
                   pageOutcome, outOfOrder, response, fnVars, uiVars>>

\* fetchMainPageInfo after its fetch
MainPageSettles ==
    /\ pc = "discovering"
    /\ mainTask = Pending
    /\ \E outcome \in Outcomes :
          mainTask' =
              IF outcome.kind = "2xx"
              THEN [state |-> "fulfilled",
                    value |-> [title |-> extractTitle(DocumentAt(req.url),
                                                      "Documentation Page"),
                               description |-> extractDescription(DocumentAt(req.url))]]
              ELSE [state |-> "rejected", reason |-> httpErrorMessage(outcome)]
    /\ UNCHANGED <<site, req, pc, sitemapTask, navTask, allUrls, pageSlots,
                   pageOutcome, outOfOrder, fetchLog, response, fnVars, uiVars>>

\* discoverNavigationLinks after its fetch
NavigationSettles ==
    /\ pc = "discovering"
    /\ navTask = Pending
    /\ \E outcome \in Outcomes :
          navTask' = [state |-> "fulfilled",
                      value |-> IF outcome.kind = "2xx" THEN site.navigationUrls
                                ELSE <<>>,
                      ok |-> outcome.kind = "2xx"]
    /\ UNCHANGED <<site, req, pc, sitemapTask, mainTask, allUrls, pageSlots,
                   pageOutcome, outOfOrder, fetchLog, response, fnVars, uiVars>>

\* discoverDocumentationStructure after Promise.allSettled: the throw when
\* the main page is missing, else the candidate list and the start of the
\* per-page fetches
TopLevelSettled ==
    /\ pc = "discovering"
    /\ sitemapTask.state = "fulfilled"
    /\ mainTask.state \in {"fulfilled", "rejected"}
    /\ navTask.state = "fulfilled"
    /\ IF mainPageMissing(mainTask, sitemapTask.value, navTask.value)
       THEN /\ response' = Send(500, [success |-> FALSE,
                                      error |-> mainPageError(mainTask)])
            /\ pc' = "done"
            /\ UNCHANGED <<allUrls, pageSlots, pageOutcome, fetchLog>>
       ELSE LET urls == allUrlsOf(req.url, sitemapTask.value, navTask.value)
                batch == pageBatch(urls)
            IN  /\ allUrls' = urls
                /\ pageSlots' = [i \in 1..Len(batch) |-> Pending]
                /\ pageOutcome' = [i \in 1..Len(batch) |-> Pending]
                /\ fetchLog' = fetchLog \o [i \in 1..Len(batch) |-> Fetch("page", batch[i])]
                /\ pc' = "analyzing"
                /\ UNCHANGED response
    /\ UNCHANGED <<site, req, sitemapTask, mainTask, navTask, outOfOrder, fnVars, uiVars>>

\* the fetch of one promise of pageInfoPromises completes
PageFetchSettles ==
    /\ pc = "analyzing"
    /\ \E i \in 1..Len(pageOutcome) :
          /\ pageOutcome[i] = Pending
          /\ \E outcome \in Outcomes :
                /\ pageOutcome' = [pageOutcome EXCEPT ![i] = outcome]
                /\ pageSlots' = settleSlot(pageSlots, i,
                                    pageInfoOrNull(fetchLog[Len(fetchLog) - Len(pageOutcome) + i].url,
                                                   outcome))
          /\ outOfOrder' = (outOfOrder \/ \E j \in 1..(i-1) : pageOutcome[j] = Pending)
    /\ UNCHANGED <<site, req, pc, sitemapTask, mainTask, navTask, allUrls,
                   fetchLog, response, fnVars, uiVars>>

\* the rest of discoverDocumentationStructure and of the handler, once
\* Promise.all has resolved
DiscoverRespond ==
    /\ pc = "analyzing"
    /\ \A i \in 1..Len(pageOutcome) : pageOutcome[i] # Pending
    /\ LET pages == nonNullPages(pageSlots)
       IN  response' = Send(200, [success |-> TRUE,
                                  data |-> discoveryReport(req.url, mainTask.value, pages)])
    /\ pc' = "done"
    /\ UNCHANGED <<site, req, sitemapTask, mainTask, navTask, allUrls, pageSlots,
                   pageOutcome, outOfOrder, fetchLog, fnVars, uiVars>>

(***************************************************************************)
(* The page: the component Home as it is mounted                           *)
(***************************************************************************)
\* the state of Home when it is mounted: the initial values of useState
HomeMounted ==
    [url |-> "", isLoading |-> FALSE, isDiscovering |-> FALSE, result |-> "",
     error |-> "", mode |-> "simple", discoveryData |-> Null,
     selectedPages |-> {}]

\* the page as it is mounted, nothing typed and nothing clicked
UiIdle ==
    /\ home = HomeMounted
    /\ inFlight = <<>>
    /\ lastEvent = [name |-> "mounted"]
    /\ sinceReset = FALSE

FnIdle == fn = "none" /\ arg = <<>> /\ out = [done |-> FALSE]

Init == site \in Sites /\ InitRequest /\ FnIdle /\ UiIdle

Next ==
    \/ HandleRequest
    \/ CompileFetchSettles
    \/ SitemapProbeSettles
    \/ MainPageSettles
    \/ NavigationSettles
    \/ TopLevelSettled
    \/ PageFetchSettles
    \/ DiscoverRespond

Spec == Init /\ [][Next]_vars

\* The handler runs to its first await, and a continuation runs once its
\* promises have settled. A fetch that was given AbortSignal.timeout settles
\* whatever the upstream does: by then at the latest the signal aborts it.
\* The fetch of compile has no signal: it settles only if the upstream
\* answers or the connection fails, which nothing guarantees.
Fairness ==
    /\ WF_vars(HandleRequest)
    /\ WF_vars(SitemapProbeSettles)
    /\ WF_vars(MainPageSettles)
    /\ WF_vars(NavigationSettles)
    /\ WF_vars(TopLevelSettled)
    /\ WF_vars(PageFetchSettles)
    /\ WF_vars(DiscoverRespond)

SpecLive == Init /\ [][Next]_vars /\ Fairness

(***************************************************************************)
(* discover on sites with more pages than the limit of the per-page pass.  *)
(* The fetches of the pass settle in one step here: the interleavings of   *)
(* their completions are explored by Spec on the small sites.              *)
(***************************************************************************)
ExtraUrls == 2

BulkUrl(i) == "https://x.com/docs/p" \o ToString(i)

\* sites whose sitemap lists n pages, n around the limit; with repeats, the
\* sitemap lists the seed and its first page once more
BulkSites ==
    { [seed |-> "https://x.com",
       locs |-> [i \in 1..n |-> BulkUrl(i)]
                \o (IF repeats THEN <<"https://x.com", BulkUrl(1)>> ELSE <<>>),
       navigationUrls |-> <<BulkUrl(1), "https://x.com/api/widgets">>]
      : n \in (DiscoverCap - 3)..(DiscoverCap + ExtraUrls), repeats \in BOOLEAN }

\* which fetches of a pass fail: none, every third one, or all
FailurePatterns == {"none", "thirds", "all"}

PatternOutcome(pattern, i) ==
    CASE pattern = "none" -> [kind |-> "2xx"]
      [] pattern = "all" -> [kind |-> "unreachable"]
      [] OTHER -> IF i % 3 = 0 THEN [kind |-> "non2xx", status |-> 404]
                  ELSE IF i % 3 = 1 THEN [kind |-> "2xx"]
                  ELSE [kind |-> "timeout"]

InitCap ==
    /\ site \in BulkSites
    /\ InitRequest
    /\ req = [route |-> "discover", method |-> "POST", url |-> site.seed,
              selectedPages |-> <<>>]
    /\ FnIdle
    /\ UiIdle

\* every fetch of pageInfoPromises completes
PagePassSettles ==
    /\ pc = "analyzing"
    /\ \A i \in 1..Len(pageOutcome) : pageOutcome[i] = Pending
    /\ \E pattern \in FailurePatterns :
          /\ pageOutcome' = [i \in 1..Len(pageOutcome) |-> PatternOutcome(pattern, i)]
          /\ pageSlots' = [i \in 1..Len(pageSlots) |->
                              pageInfoOrNull(fetchLog[Len(fetchLog) - Len(pageOutcome) + i].url,
                                             PatternOutcome(pattern, i))]
    /\ UNCHANGED <<site, req, pc, sitemapTask, mainTask, navTask, allUrls,
                   outOfOrder, fetchLog, response, fnVars, uiVars>>

NextCap ==
    \/ HandleRequest
    \/ SitemapProbeSettles
    \/ MainPageSettles
    \/ NavigationSettles
    \/ TopLevelSettled
    \/ PagePassSettles
    \/ DiscoverRespond

SpecCap == InitCap /\ [][NextCap]_vars

(***************************************************************************)
(* extractNavigationLinks                                                  *)
(***************************************************************************)
\* new URL(href, baseUrl).href for an href that does not start with "/":
\* an href with a scheme stands for itself, any other is appended to the
\* directory of the base (hrefs with "." or ".." segments, a query or
\* upper-case letters in scheme or host are not among the inputs)
ResolveHref(href, baseUrl) ==
    IF UrlParses(href) THEN href
    ELSE LET origin == Origin(baseUrl)
             slashes == {k \in (Len(origin) + 1)..Len(baseUrl) :
                            SubSeq(baseUrl, k, k) = "/"}
         IN  IF slashes = {} THEN origin \o "/" \o href
             ELSE SubSeq(baseUrl, 1, CHOOSE k \in slashes : \A j \in slashes : j <= k)
                      \o href

\* the words one of which the text of a navigation link has to contain
navigationKeywords ==
    <<"guide", "api", "reference", "example", "tutorial", "docs", "documentation">>

\* the body of the inner loop for one match of linkRegex: the absolute URL
\* pushed to urls, or Null when the link is skipped
navigationUrlOrNull(link, baseUrl) ==
    LET linkText == ToLowerCase(link.text)
        href == IF StartsWith(link.href, "/") THEN Origin(baseUrl) \o link.href
                ELSE IF ~StartsWith(link.href, "http")
                THEN ResolveHref(link.href, baseUrl)
                ELSE link.href
    IN  IF \/ StartsWith(link.href, "mailto:")
           \/ StartsWith(link.href, "tel:")
           \/ StartsWith(link.href, "#")
        THEN Null
        ELSE IF /\ StartsWith(href, Origin(baseUrl))
                /\ \E k \in 1..Len(navigationKeywords) :
                       Includes(linkText, navigationKeywords[k])
        THEN [url |-> href]
        ELSE Null

\* extractNavigationLinks(html, baseUrl), html given as links: the matches
\* of linkRegex in the navigation sections of the page, in the order the
\* loops meet them
extractNavigationLinks(links, baseUrl) ==
    LET pushed == [i \in 1..Len(links) |-> navigationUrlOrNull(links[i], baseUrl)]
        kept == FilterByIndex(pushed, {i \in 1..Len(pushed) : pushed[i] # Null})
    IN  Dedup([i \in 1..Len(kept) |-> kept[i].url])

(***************************************************************************)
(* Pure functions applied to enumerated inputs                             *)
(***************************************************************************)
MaxSitemapLen == 3

MaxNavLen == 2

MaxPages == 3

SeqsUpTo(S, n) == UNION {[1..k -> S] : k \in 0..n}

NoRepeat(q) == \A i, j \in 1..Len(q) : q[i] = q[j] => i = j

\* URLs the candidate list is built from: a seed, and pages of its site
ListSeeds == {"https://x.com", "https://x.com/docs"}

ListUrls == {"https://x.com", "https://x.com/api/widgets", "https://x.com/guide/start"}

\* categories a page list may carry: the six of categorizeUrl and two others
PageCategories ==
    {priorityOrder[i] : i \in 1..Len(priorityOrder)} \cup {"Changelog", "Blog"}

PageOf(i, c) ==
    [url |-> "https://x.com/p" \o ToString(i), title |-> "Page " \o ToString(i),
     category |-> c, description |-> "", estimatedSize |-> "0 chars"]

PageLists ==
    {[i \in 1..Len(cs) |-> PageOf(i, cs[i])] : cs \in SeqsUpTo(PageCategories, MaxPages)}

\* URLs given to categorizeUrl: the examples of the specification, URLs that
\* match several rules, upper-case spellings, and URLs that match none
TestUrls ==
    { "https://x.com/api/widgets", "https://x.com/guide/start",
      "https://x.com/blog/post", "https://x.com", "https://x.com/api",
      "https://x.com/API/Widgets", "https://x.com/Guide/Start",
      "https://x.com/docs/intro", "https://x.com/docs/introduction",
      "https://x.com/quickstart", "https://x.com/getting-started",
      "https://x.com/examples/api/list", "https://x.com/examples/guide",
      "https://x.com/tutorial/overview", "https://x.com/concepts/start",
      "https://x.com/overview/", "https://x.com/sample/one",
      "https://x.com/preferences", "https://x.com/ref/x",
      "https://docs.example.com", "https://docs.example.com/docs/intro",
      "https://docs.example.com/api/widgets", "https://docs.example.com/blog/news",
      "https://x.com/Tutorials/Quick", "https://x.com/start/concept" }

\* character counts given to formatSize: every count up to MaxChars, which
\* lies beyond both band boundaries, and counts around every half thousand
\* up to MaxHalfThousands * 500
MaxChars == 10600

MaxHalfThousands == 252

SizeInputs ==
    0..MaxChars
    \cup {500 * k + d : k \in 1..MaxHalfThousands, d \in {-1, 0, 1}}

\* markdown sizes of the pages of a report: counts of every band, on both
\* sides of the rounding thresholds
PageSizes == {0, 950, 1000, 1050, 4560, 9950, 10499, 125000}

MaxSizedPages == 3

SizedPage(i, chars) ==
    [url |-> "https://x.com/p" \o ToString(i), title |-> "Page " \o ToString(i),
     category |-> "General Documentation", description |-> "",
     estimatedSize |-> formatSize(chars)]

\* anchors of a navigation section: relative and absolute links of the site,
\* links to other hosts, one of them a host whose name starts with the name
\* of the site, and links that are no pages
NavigationLinks ==
    { [href |-> "/guide/start", text |-> "User Guide"],
      [href |-> "https://x.com/api", text |-> "API"],
      [href |-> "tutorial/one", text |-> "Tutorial"],
      [href |-> "/pricing", text |-> "Pricing"],
      [href |-> "https://other.com/docs", text |-> "Docs"],
      [href |-> "https://x.com.evil.com/docs", text |-> "Docs"],
      [href |-> "mailto:docs@x.com", text |-> "Docs by mail"],
      [href |-> "#docs", text |-> "Docs"],
      [href |-> "https://x.com/guide/start", text |-> "Guides"] }

MaxLinks == 2

NavigationBases == {"https://x.com", "https://x.com/docs/intro"}

RequestIdle ==
    /\ site = [seed |-> "", locs |-> <<>>, navigationUrls |-> <<>>]
    /\ req = [route |-> "none", method |-> "", url |-> "", selectedPages |-> <<>>]
    /\ pc = "done"
    /\ sitemapTask = Idle /\ mainTask = Idle /\ navTask = Idle
    /\ allUrls = <<>> /\ pageSlots = <<>> /\ pageOutcome = <<>>
    /\ outOfOrder = FALSE
    /\ fetchLog = <<>>
    /\ response = NotSent

InitFn ==
    /\ RequestIdle
    /\ UiIdle
    /\ out = [done |-> FALSE]
    /\ \/ /\ fn = "allUrls"
          /\ arg \in [url : ListSeeds,
                      sitemapResult : SeqsUpTo(ListUrls, MaxSitemapLen),
                      navigationResult : {q \in SeqsUpTo(ListUrls, MaxNavLen) : NoRepeat(q)}]
       \/ /\ fn = "categorizePages"
          /\ arg \in PageLists
       \/ /\ fn = "categorizeUrl"
          /\ arg \in TestUrls
       \/ /\ fn = "formatSize"
          /\ arg \in SizeInputs
       \/ /\ fn = "estimatedTotalSize"
          /\ arg \in SeqsUpTo(PageSizes, MaxSizedPages)
       \/ /\ fn = "extractNavigationLinks"
          /\ arg \in [links : SeqsUpTo(NavigationLinks, MaxLinks),
                      baseUrl : NavigationBases]

ApplyAllUrls ==
    /\ fn = "allUrls" /\ ~out.done
    /\ out' = [done |-> TRUE,
               value |-> allUrlsOf(arg.url, arg.sitemapResult, arg.navigationResult)]
    /\ UNCHANGED <<fn, arg, reqVars, uiVars>>

ApplyCategorizePages ==
    /\ fn = "categorizePages" /\ ~out.done
    /\ out' = [done |-> TRUE, value |-> categorizePages(arg)]
    /\ UNCHANGED <<fn, arg, reqVars, uiVars>>

ApplyCategorizeUrl ==
    /\ fn = "categorizeUrl" /\ ~out.done
    /\ out' = [done |-> TRUE, value |-> categorizeUrl(arg)]
    /\ UNCHANGED <<fn, arg, reqVars, uiVars>>

ApplyFormatSize ==
    /\ fn = "formatSize" /\ ~out.done
    /\ out' = [done |-> TRUE, value |-> formatSize(arg)]
    /\ UNCHANGED <<fn, arg, reqVars, uiVars>>

\* the report of pages whose markdown sizes are arg, and its total
ApplyEstimatedTotalSize ==
    /\ fn = "estimatedTotalSize" /\ ~out.done
    /\ LET pages == [i \in 1..Len(arg) |-> SizedPage(i, arg[i])]
       IN  out' = [done |-> TRUE,
                   value |-> discoveryReport("https://x.com", [title |-> "X"],
                                             pages).estimatedTotalSize]
    /\ UNCHANGED <<fn, arg, reqVars, uiVars>>

ApplyExtractNavigationLinks ==
    /\ fn = "extractNavigationLinks" /\ ~out.done
    /\ out' = [done |-> TRUE,
               value |-> extractNavigationLinks(arg.links, arg.baseUrl)]
    /\ UNCHANGED <<fn, arg, reqVars, uiVars>>

NextFn ==
    \/ ApplyExtractNavigationLinks
    \/ ApplyAllUrls
    \/ ApplyCategorizePages
    \/ ApplyCategorizeUrl
    \/ ApplyFormatSize
    \/ ApplyEstimatedTotalSize

SpecFn == InitFn /\ [][NextFn]_vars

(***************************************************************************)
(* The page: the handlers of Home and the continuations of their fetches.  *)
(* A handler runs to its await in one step and its state updates are       *)
(* rendered before the next event; the code after the await runs in one    *)
(* step when the fetch settles. Nothing aborts a fetch of the page.        *)
(***************************************************************************)
\* what the user types into the input
UiUrls == {"", "https://x.com"}

\* data.content of an answer of /api/compile
UiContent == "# Documentation"

UiPage(i, c) ==
    [url |-> "https://x.com/p" \o ToString(i), title |-> "Page " \o ToString(i),
     category |-> c, description |-> "", estimatedSize |-> "1k chars"]

\* data.data of an answer of /api/discover: a report of three pages in two
\* categories, and a report of one page
UiReports ==
    { discoveryReport("https://x.com", [title |-> "X"],
                      << UiPage(1, "API Reference"), UiPage(2, "Guides & Tutorials"),
                         UiPage(3, "API Reference") >>),
      discoveryReport("https://x.com", [title |-> "X"],
                      << UiPage(4, "General Documentation") >>) }

UiErrorStatuses == {400, 500}

\* how a fetch of the page ends: an OK response with its JSON, a response
\* that is not OK, or a rejected fetch
UiOutcomes(api) ==
    (IF api = "compile"
     THEN {[kind |-> "ok", data |-> [success |-> TRUE, content |-> UiContent]]}
     ELSE {[kind |-> "ok", data |-> [success |-> TRUE, data |-> d]] : d \in UiReports})
    \cup {[kind |-> "nonOk", status |-> s] : s \in UiErrorStatuses}
    \cup {[kind |-> "failed"]}

\* err.message in the catch blocks: the Error thrown for !response.ok, or
\* the TypeError of a rejected fetch
caughtMessage(outcome) ==
    IF outcome.kind = "nonOk"
    THEN "HTTP error! status: " \o ToString(outcome.status)
    ELSE "Failed to fetch"

\* the URLs of the first category only (mutant)
allPagesOfFirstCategory(data) ==
    {data.categories[1][2][k].url : k \in 1..Len(data.categories[1][2])}

\* Object.values(data.data.categories).flat().map(page => page.url)
allPages(data) ==
    UNION { {data.categories[c][2][k].url : k \in 1..Len(data.categories[c][2])}
            : c \in 1..Len(data.categories) }

\* the page is added whether it was selected or not (mutant)
pageAdded(selectedPages, pageUrl) == selectedPages \cup {pageUrl}

\* newSelected of togglePageSelection
pageToggled(selectedPages, pageUrl) ==
    IF pageUrl \in selectedPages THEN selectedPages \ {pageUrl}
    ELSE selectedPages \cup {pageUrl}

\* newSelected of toggleCategorySelection
categoryToggled(selectedPages, pages, selectAll) ==
    LET urls == {pages[k].url : k \in 1..Len(pages)}
    IN  IF selectAll THEN selectedPages \cup urls ELSE selectedPages \ urls

\* the body of resetDiscovery
discoveryReset(h) ==
    [h EXCEPT !.discoveryData = Null, !.selectedPages = {}, !.error = "",
              !.result = ""]

\* what is rendered: the form of the simple mode, the discovery section and
\* the selection section of the advanced mode
SimpleFormShown == home.mode = "simple"

DiscoverySectionShown == home.mode = "advanced" /\ home.discoveryData = Null

SelectionSectionShown == home.mode = "advanced" /\ home.discoveryData # Null

Event(name) == [name |-> name, before |-> home]

\* onChange of the url input, which is disabled while its request runs
setUrl ==
    /\ \/ SimpleFormShown /\ ~home.isLoading
       \/ DiscoverySectionShown /\ ~home.isDiscovering
    /\ \E v \in UiUrls \ {home.url} :
          home' = [home EXCEPT !.url = v]
    /\ lastEvent' = Event("setUrl")
    /\ UNCHANGED <<inFlight, sinceReset, reqVars, fnVars>>

\* onClick of a mode button: setMode(m); resetDiscovery()
selectMode ==
    /\ \E m \in {"simple", "advanced"} :
          home' = discoveryReset([home EXCEPT !.mode = m])
    /\ lastEvent' = Event("selectMode")
    /\ sinceReset' = TRUE
    /\ UNCHANGED <<inFlight, reqVars, fnVars>>

\* onClick of 'Neue Analyse'
resetDiscovery ==
    /\ SelectionSectionShown
    /\ home' = discoveryReset(home)
    /\ lastEvent' = Event("resetDiscovery")
    /\ sinceReset' = TRUE
    /\ UNCHANGED <<inFlight, reqVars, fnVars>>

\* handleSimpleSubmit up to its await; the submit button is disabled while
\* isLoading or without a url
handleSimpleSubmit ==
    /\ SimpleFormShown /\ ~home.isLoading /\ home.url # ""
    /\ home' = [home EXCEPT !.isLoading = TRUE, !.error = "", !.result = ""]
    /\ inFlight' = Append(inFlight, [api |-> "compile",
                                     handler |-> "handleSimpleSubmit",
                                     body |-> [url |-> home.url]])
    /\ lastEvent' = Event("handleSimpleSubmit")
    /\ sinceReset' = FALSE
    /\ UNCHANGED <<reqVars, fnVars>>

\* handleDiscovery up to its await; the button is disabled while
\* isDiscovering or without a url
handleDiscovery ==
    /\ DiscoverySectionShown /\ ~home.isDiscovering /\ home.url # ""
    /\ home' = [home EXCEPT !.isDiscovering = TRUE, !.error = "",
                            !.discoveryData = Null]
    /\ inFlight' = Append(inFlight, [api |-> "discover",
                                     handler |-> "handleDiscovery",
                                     body |-> [url |-> home.url]])
    /\ lastEvent' = Event("handleDiscovery")
    /\ sinceReset' = FALSE
    /\ UNCHANGED <<reqVars, fnVars>>

\* handleAdvancedCompile up to its await, as a function of the state it is
\* called in: the state it leaves and the requests it sends
advancedCompile(h) ==
    IF h.discoveryData = Null \/ h.selectedPages = {}
    THEN [home |-> h, requests |-> <<>>]
    ELSE [home |-> [h EXCEPT !.isLoading = TRUE, !.error = "", !.result = ""],
          requests |-> << [api |-> "compile",
                           handler |-> "handleAdvancedCompile",
                           body |-> [url |-> h.discoveryData.baseUrl,
                                     selectedPages |-> h.selectedPages]] >>]

\* onClick of the compile button of the selection section, which is
\* disabled while isLoading or with nothing selected
handleAdvancedCompile ==
    /\ SelectionSectionShown /\ ~home.isLoading /\ home.selectedPages # {}
    /\ home' = advancedCompile(home).home
    /\ inFlight' = inFlight \o advancedCompile(home).requests
    /\ sinceReset' = (sinceReset /\ advancedCompile(home).requests = <<>>)
    /\ lastEvent' = Event("handleAdvancedCompile")
    /\ UNCHANGED <<reqVars, fnVars>>

\* onChange of the checkbox of a page
togglePageSelection ==
    /\ SelectionSectionShown
    /\ \E pageUrl \in allPages(home.discoveryData) :
          /\ home' = [home EXCEPT
                         !.selectedPages = pageToggled(home.selectedPages, pageUrl)]
          /\ lastEvent' = [name |-> "togglePageSelection", before |-> home,
                           pageUrl |-> pageUrl]
    /\ UNCHANGED <<inFlight, sinceReset, reqVars, fnVars>>

\* onChange of the checkbox of a category: e.target.checked is the opposite
\* of allSelected
toggleCategorySelection ==
    /\ SelectionSectionShown
    /\ \E c \in 1..Len(home.discoveryData.categories) :
          LET pages == home.discoveryData.categories[c][2]
              allSelected == \A k \in 1..Len(pages) :
                                 pages[k].url \in home.selectedPages
          IN  /\ home' = [home EXCEPT
                            !.selectedPages =
                                categoryToggled(home.selectedPages, pages, ~allSelected)]
              /\ lastEvent' = [name |-> "toggleCategorySelection",
                               before |-> home, pages |-> pages,
                               selectAll |-> ~allSelected]
    /\ UNCHANGED <<inFlight, sinceReset, reqVars, fnVars>>

\* inFlight without its i-th request
Settled(i) == SubSeq(inFlight, 1, i - 1) \o SubSeq(inFlight, i + 1, Len(inFlight))

\* isLoading reset at the end of the try block instead of in finally: left
\* true when the request fails (mutant)
loadingAfterFailure(outcome) == outcome.kind # "ok"

\* isLoading after the try statement of a compile handler: finally
loadingAfter(outcome) == FALSE

\* handleSimpleSubmit and handleAdvancedCompile after their await: try,
\* catch and finally
CompileSettles ==
    \E i \in 1..Len(inFlight) :
        /\ inFlight[i].api = "compile"
        /\ \E outcome \in UiOutcomes("compile") :
              /\ home' = IF outcome.kind = "ok"
                         THEN [home EXCEPT !.result = outcome.data.content,
                                           !.isLoading = loadingAfter(outcome)]
                         ELSE [home EXCEPT !.error = caughtMessage(outcome),
                                           !.isLoading = loadingAfter(outcome)]
              /\ lastEvent' = [name |-> "CompileSettles", before |-> home,
                               request |-> inFlight[i], outcome |-> outcome]
        /\ inFlight' = Settled(i)
        /\ UNCHANGED <<sinceReset, reqVars, fnVars>>

\* handleDiscovery after its await: try, catch and finally
DiscoverySettles ==
    \E i \in 1..Len(inFlight) :
        /\ inFlight[i].api = "discover"
        /\ \E outcome \in UiOutcomes("discover") :
              /\ home' = IF outcome.kind = "ok"
                         THEN [home EXCEPT !.discoveryData = outcome.data.data,
                                           !.selectedPages = allPages(outcome.data.data),
                                           !.isDiscovering = FALSE]
                         ELSE [home EXCEPT !.error = caughtMessage(outcome),
                                           !.isDiscovering = FALSE]
              /\ lastEvent' = [name |-> "DiscoverySettles", before |-> home,
                               request |-> inFlight[i], outcome |-> outcome]
        /\ inFlight' = Settled(i)
        /\ UNCHANGED <<sinceReset, reqVars, fnVars>>

InitUI == RequestIdle /\ FnIdle /\ UiIdle

NextUI ==
    \/ setUrl
    \/ selectMode
    \/ resetDiscovery
    \/ handleSimpleSubmit
    \/ handleDiscovery
    \/ handleAdvancedCompile
    \/ togglePageSelection
    \/ toggleCategorySelection
    \/ CompileSettles
    \/ DiscoverySettles

SpecUI == InitUI /\ [][NextUI]_vars

(***************************************************************************)
(* Claims about the pure functions (checked under SpecFn)                  *)
(***************************************************************************)

\* C4: the candidate list [seed] ++ sitemapUrls ++ navigationUrls after the
\* deduplication has the seed at index 0, holds no URL twice, holds every URL
\* of the concatenation in the order of the first occurrences, and is left
\* unchanged by a second deduplication.
C4_CandidateListDeduplicated ==
    (fn = "allUrls" /\ out.done) =>
        LET src == <<arg.url>> \o arg.sitemapResult \o arg.navigationResult
            r   == out.value
            First(u) == CHOOSE i \in 1..Len(src) :
                            src[i] = u /\ \A j \in 1..(i-1) : src[j] # u
        IN  /\ Len(r) >= 1 /\ r[1] = arg.url
            /\ \A i, j \in 1..Len(r) : r[i] = r[j] => i = j
            /\ {r[i] : i \in 1..Len(r)} = {src[i] : i \in 1..Len(src)}
            /\ \A i, j \in 1..Len(r) : i < j => First(r[i]) < First(r[j])
            /\ Dedup(r) = r

\* C4 witness: a concatenation in which the seed comes back in the sitemap
\* and another URL is listed by both strategies has been deduplicated.
C4_Witness ==
    /\ fn = "allUrls" /\ out.done
    /\ \E i \in 1..Len(arg.sitemapResult) : arg.sitemapResult[i] = arg.url
    /\ \E i \in 1..Len(arg.sitemapResult), j \in 1..Len(arg.navigationResult) :
           /\ arg.sitemapResult[i] = arg.navigationResult[j]
           /\ arg.sitemapResult[i] # arg.url
    /\ Len(out.value) < 1 + Len(arg.sitemapResult) + Len(arg.navigationResult)

\* C7: categorizePages emits the keys in the fixed priority order restricted
\* to the categories present, then every other present category in
\* first-seen order; the priority part is the same for every order of the
\* input pages; pages of {Examples, Getting Started, General Documentation}
\* give [Getting Started, Examples, General Documentation].
C7_CategoryKeyOrder ==
    (fn = "categorizePages" /\ out.done) =>
        LET cats     == [i \in 1..Len(arg) |-> arg[i].category]
            present  == {cats[i] : i \in 1..Len(cats)}
            fixed    == {priorityOrder[i] : i \in 1..Len(priorityOrder)}
            IsPresent(c) == c \in present
            IsOther(c)   == c \notin fixed
            prio     == SelectSeq(priorityOrder, IsPresent)
            seen     == SelectSeq(cats, IsOther)
            otherSeq == LET F[n \in 0..Len(seen)] ==
                                IF n = 0 THEN <<>>
                                ELSE IF \E j \in 1..(n-1) : seen[j] = seen[n]
                                     THEN F[n-1]
                                     ELSE Append(F[n-1], seen[n])
                        IN  F[Len(seen)]
        IN  /\ Keys(out.value) = prio \o otherSeq
            /\ \A f \in Permutations(1..Len(arg)) :
                   SubSeq(Keys(categorizePages([i \in 1..Len(arg) |-> arg[f[i]]])),
                          1, Len(prio)) = prio
            /\ present = {"Examples", "Getting Started", "General Documentation"}
               => Keys(out.value) =
                      <<"Getting Started", "Examples", "General Documentation">>

\* C7 witness: pages arriving as Examples, Getting Started, General
\* Documentation have been grouped, and a category outside the fixed six
\* was present in another run.
C7_Witness ==
    /\ fn = "categorizePages" /\ out.done
    /\ Len(arg) = 3
    /\ arg[1].category = "Examples" /\ arg[2].category = "Getting Started"
    /\ arg[3].category = "General Documentation"
    /\ Keys(out.value) = <<"Getting Started", "Examples", "General Documentation">>

\* C8: categorizeUrl maps every URL to one of the six categories, the one of
\* the first rule that matches the lower-cased URL in the order API
\* Reference, Examples, Guides & Tutorials, Getting Started, Concepts, else
\* General Documentation; the three examples of the specification hold.
C8_CategorizeUrlFirstMatch ==
    LET rules == <<
            [category |-> "API Reference",
             contains |-> {"/api/", "/reference/", "/ref/", "reference"},
             suffix   |-> {"/api"}],
            [category |-> "Examples",
             contains |-> {"/example/", "/examples/", "/sample/", "example"},
             suffix   |-> {}],
            [category |-> "Guides & Tutorials",
             contains |-> {"/guide/", "/guides/", "/tutorial/", "/tutorials/",
                           "guide", "tutorial"},
             suffix   |-> {}],
            [category |-> "Getting Started",
             contains |-> {"/quick", "/start", "/getting", "quickstart",
                           "introduction"},
             suffix   |-> {}],
            [category |-> "Concepts",
             contains |-> {"/concept/", "/concepts/", "/overview/", "concept",
                           "overview"},
             suffix   |-> {}] >>
        Matches(r, u) == \/ \E p \in r.contains : Includes(u, p)
                         \/ \E p \in r.suffix : EndsWith(u, p)
        Expected(url) ==
            LET u   == ToLowerCase(url)
                hit == {i \in 1..Len(rules) : Matches(rules[i], u)}
            IN  IF hit = {} THEN "General Documentation"
                ELSE rules[CHOOSE i \in hit : \A j \in hit : i <= j].category
    IN  (fn = "categorizeUrl" /\ out.done) =>
            /\ out.value \in {priorityOrder[i] : i \in 1..Len(priorityOrder)}
            /\ out.value = Expected(arg)
            /\ arg = "https://x.com/api/widgets" => out.value = "API Reference"
            /\ arg = "https://x.com/guide/start" => out.value = "Guides & Tutorials"
            /\ arg = "https://x.com/blog/post" => out.value = "General Documentation"

\* C8 witness: the URL that matches both the guide rule and the
\* getting-started rule has been categorised by the guide rule.
C8_Witness ==
    /\ fn = "categorizeUrl" /\ out.done
    /\ arg = "https://x.com/guide/start"
    /\ out.value = "Guides & Tutorials"

(***************************************************************************)
(* Claims about the request handlers (checked under Spec)                  *)
(***************************************************************************)
DiscoverDone == pc = "done" /\ req.route = "discover" /\ response.sent

CompileDone == pc = "done" /\ req.route = "compile" /\ response.sent

\* the URLs of the per-page fetches, in the order they were issued
PageFetchUrls ==
    LET logged == SelectSeq(fetchLog, LAMBDA f : f.kind = "page")
    IN  [i \in 1..Len(logged) |-> logged[i].url]

\* every page of a report, category after category
ReportedPages(categories) ==
    LET F[i \in 0..Len(categories)] ==
            IF i = 0 THEN <<>> ELSE F[i-1] \o categories[i][2]
    IN  F[Len(categories)]

\* C1: in discover, when the main-page fetch succeeded, the request returns
\* success whatever each per-page fetch answered (2xx, non-2xx, timeout,
\* unreachable), and the report holds exactly the pages whose own fetch
\* succeeded.
C1_PageFailuresIsolated ==
    (DiscoverDone /\ mainTask.state = "fulfilled") =>
        LET succeeded == {i \in 1..Len(pageOutcome) : pageOutcome[i].kind = "2xx"}
            reported  == ReportedPages(response.body.data.categories)
        IN  /\ response.status = 200 /\ response.body.success
            /\ {reported[k].url : k \in 1..Len(reported)}
                   = {PageFetchUrls[i] : i \in succeeded}
            /\ Len(reported) = Cardinality(succeeded)
            /\ response.body.data.totalPages = Cardinality(succeeded)

\* C1 witness: a discovery has answered success although page fetches ended
\* with a non-2xx status, a timeout and an unreachable host.
C1_Witness ==
    /\ DiscoverDone /\ mainTask.state = "fulfilled"
    /\ response.body.success
    /\ \A k \in {"2xx", "non2xx", "timeout", "unreachable"} :
           \E i \in 1..Len(pageOutcome) : pageOutcome[i].kind = k
    /\ response.body.data.totalPages = 1

\* C2: in discover, a failed main-page fetch fails the whole request
\* (success = false, no report) whatever the strategies and the page fetches
\* did; with the main page fetched, the request succeeds even when the
\* sitemap strategy and the navigation strategy both failed.
C2_OnlyMainPageFatal ==
    (DiscoverDone /\ mainTask.state # "idle") =>
        /\ mainTask.state = "rejected" =>
              /\ ~response.body.success
              /\ "data" \notin DOMAIN response.body
              /\ response.status = 500
        /\ mainTask.state = "fulfilled" =>
              /\ response.body.success
              /\ "data" \in DOMAIN response.body

\* C2 witness: the main page failed while the sitemap and the navigation
\* scan both returned URLs, and the request failed.
C2_Witness ==
    /\ DiscoverDone /\ mainTask.state = "rejected"
    /\ sitemapTask.value # <<>> /\ navTask.ok /\ navTask.value # <<>>
    /\ ~response.body.success

\* C2 second case reached: both strategies failed, the main page was
\* fetched, and the request succeeded.
C2_StrategiesFailedReached ==
    /\ DiscoverDone /\ mainTask.state = "fulfilled"
    /\ sitemapTask.answeredBy = 0 /\ ~navTask.ok
    /\ response.body.success

\* C3: in compile, a non-2xx status c of the seed page gives success = false
\* with an error that starts with "HTTP c:" and neither content nor
\* metadata; status 503 gives "HTTP 503: ...".
C3_CompileSeedStatusError ==
    (CompileDone /\ pageOutcome # <<>> /\ pageOutcome[1].kind = "non2xx") =>
        /\ response.body.success = FALSE
        /\ DOMAIN response.body = {"success", "error"}
        /\ StartsWith(response.body.error,
                      "HTTP " \o ToString(pageOutcome[1].status) \o ":")
        /\ pageOutcome[1].status = 503 => StartsWith(response.body.error, "HTTP 503: ")

\* C3 witness: a compile request whose seed page answered 503 has been
\* answered.
C3_Witness ==
    /\ CompileDone /\ pageOutcome # <<>>
    /\ pageOutcome[1] = [kind |-> "non2xx", status |-> 503]
    /\ response.status = 500

\* C6: the report is a function of the candidate list and of the outcome of
\* every fetch, the same for every order in which the fetches complete, and
\* the pages of a category are in candidate-list order.
C6_ReportIndependentOfCompletionOrder ==
    (DiscoverDone /\ response.body.success) =>
        LET inOrder[i \in 0..Len(pageOutcome)] ==
                IF i = 0 THEN <<>>
                ELSE IF pageOutcome[i].kind = "2xx"
                     THEN Append(inOrder[i-1],
                                 pageInfoOrNull(PageFetchUrls[i], pageOutcome[i]).info)
                     ELSE inOrder[i-1]
            data == response.body.data
            Position(u) == CHOOSE k \in 1..Len(allUrls) : allUrls[k] = u
        IN  /\ data = discoveryReport(req.url, mainTask.value, inOrder[Len(pageOutcome)])
            /\ \A c \in 1..Len(data.categories) :
                   \A a, b \in 1..Len(data.categories[c][2]) :
                       a < b => Position(data.categories[c][2][a].url)
                                    < Position(data.categories[c][2][b].url)

\* C6 witness: a report with two pages in one category has been sent after
\* a later page fetch completed before an earlier one.
C6_Witness ==
    /\ DiscoverDone /\ response.body.success
    /\ outOfOrder
    /\ \E c \in 1..Len(response.body.data.categories) :
           Len(response.body.data.categories[c][2]) >= 2

\* the end-to-end scenario of C9: the seed https://docs.example.com, the
\* first sitemap answering with the three URLs, every fetch succeeding
C9_Scenario ==
    /\ DiscoverDone
    /\ req.url = "https://docs.example.com"
    /\ mainTask.state = "fulfilled"
    /\ sitemapTask.answeredBy = 1
    /\ sitemapTask.xml = << "https://docs.example.com/docs/intro",
                            "https://docs.example.com/api/widgets",
                            "https://docs.example.com/blog/news" >>
    /\ navTask.ok
    /\ \A i \in 1..Len(pageOutcome) : pageOutcome[i].kind = "2xx"

CategoryUrls(categories) ==
    [c \in 1..Len(categories) |->
        <<categories[c][1],
          [k \in 1..Len(categories[c][2]) |-> categories[c][2][k].url]>>]

C10_AsStated ==
    (CompileDone /\ response.body.success) =>
        LET candidates == allUrlsOf(req.url, SelectSeq(site.locs, keepSitemapUrl), <<>>)
            k == Len(candidates) - 1
        IN  k >= 1 => response.body.metadata.totalPages = Min(15, 1 + k)

(***************************************************************************)
(* Claims about the limit of the per-page pass (checked under SpecCap)     *)
(***************************************************************************)

\* C5: the per-page fetches of a discover request are issued for exactly
\* the first min(50, n) entries of the deduplicated candidate list of length
\* n, the seed first; at most 50 are started and totalPages <= 50.
C5_PagePassCapped ==
    (pc \in {"analyzing", "done"} /\ req.route = "discover" /\ allUrls # <<>>) =>
        /\ \A i, j \in 1..Len(allUrls) : allUrls[i] = allUrls[j] => i = j
        /\ PageFetchUrls =
               [i \in 1..(IF Len(allUrls) < 50 THEN Len(allUrls) ELSE 50) |-> allUrls[i]]
        /\ Len(PageFetchUrls) <= 50
        /\ PageFetchUrls[1] = req.url
        /\ (response.sent /\ response.body.success)
               => response.body.data.totalPages <= 50

\* C5 witness: a discovery with more than 50 candidates has been answered
\* with all of its 50 page fetches successful.
C5_Witness ==
    /\ DiscoverDone /\ response.body.success
    /\ Len(allUrls) > 50
    /\ response.body.data.totalPages = 50

(***************************************************************************)
(* Claims about the request handlers, continued (checked under Spec)       *)
(***************************************************************************)

\* C11 as stated: a compile request that carries selectedPages is answered
\* with a document built from exactly the selected pages: totalPages is the
\* number of selected pages and the document's source is one of them.
C11_AsStated ==
    (CompileDone /\ response.body.success /\ req.selectedPages # <<>>) =>
        /\ response.body.metadata.totalPages = Len(req.selectedPages)
        /\ \E i \in 1..Len(req.selectedPages) :
               response.body.content.source = req.selectedPages[i]

\* C12 as stated: when discover fails because the main-page fetch hit a
\* transport error, the error string of the response reports that error (for
\* a non-2xx status, "HTTP <c>: ..." with the status code c).
C12_AsStated ==
    (DiscoverDone /\ mainTask.state = "rejected") =>
        Includes(response.body.error, mainTask.reason)

\* C12, amended: when the main-page fetch of discover fails (non-2xx,
\* timeout or unreachable host), the request is answered 500 with
\* success = false and the fixed error string "Failed to fetch main page
\* information"; neither the status code nor the kind of failure appears in
\* it.
C12_MainPageFailureGeneric ==
    (DiscoverDone /\ mainTask.state = "rejected") =>
        /\ response.status = 500
        /\ ~response.body.success
        /\ response.body.error = "Failed to fetch main page information"
        /\ ~Includes(response.body.error, mainTask.reason)
        /\ \A c \in HttpErrorStatuses : ~Includes(response.body.error, ToString(c))

\* C12 witness: a discover request whose main-page fetch was answered 404
\* has been answered.
C12_Witness ==
    /\ DiscoverDone
    /\ mainTask.state = "rejected"
    /\ mainTask.reason = "HTTP 404: Not Found"

\* C13: in both handlers, a request whose method is not POST, whose url is
\* missing or whose url is not a syntactically valid URL is answered by the
\* first step of the handler with success = false and a message, and no
\* fetch is issued at any point of the request.
C13_InvalidRequestNoFetch ==
    (req.route \in {"compile", "discover"}
       /\ (req.method # "POST" \/ req.url \in {"", "docs.example.com"})) =>
        /\ fetchLog = <<>>
        /\ pc \in {"received", "done"}
        /\ pc = "done" =>
               /\ response.sent /\ ~response.body.success
               /\ response.status = (IF req.method # "POST" THEN 405 ELSE 400)
               /\ response.body.error
                      = (IF req.method # "POST" THEN "Method not allowed"
                         ELSE IF req.url = "" THEN "URL is required"
                         ELSE "Invalid URL format")
               /\ DOMAIN response.body = {"success", "error"}

\* C13 witness: a POST to discover with a url that is not a URL has been
\* answered.
C13_Witness ==
    /\ req.route = "discover" /\ req.method = "POST"
    /\ req.url = "docs.example.com"
    /\ pc = "done" /\ response.sent /\ fetchLog = <<>>

\* the body of a response is a success with its payload and no error, or a
\* failure with a non-empty error string and no payload
WellFormedBody(route, body) ==
    IF body.success
    THEN DOMAIN body = (IF route = "compile" THEN {"success", "content", "metadata"}
                        ELSE {"success", "data"})
    ELSE /\ DOMAIN body = {"success", "error"}
         /\ Len(body.error) > 0

\* C14: every invocation of the compile or discover handler that completes
\* has sent a response; a response, once sent, is never followed by another;
\* and every response is a success with payload and no error or a failure
\* with a non-empty error string and no payload.
C14_OneWellFormedResponse ==
    /\ [](pc = "done" => response.sent)
    /\ [](response.sent => pc = "done" /\ WellFormedBody(req.route, response.body))
    /\ [][response.sent => response' = response]_vars

\* C14 witness: a compile request has been answered with a failure.
C14_Witness ==
    /\ CompileDone /\ response.status = 500
    /\ ~response.body.success
    /\ response.body.error = "fetch failed"

\* C19 as stated: the timestamp of the "Compiled:" line of the document is
\* equal to metadata.compiledAt of the same response, however the clock
\* advances during the request.
C19_AsStated ==
    (CompileDone /\ response.body.success) =>
        response.body.content.compiled = response.body.metadata.compiledAt

\* a request that passes the checks of the handler
ValidRequest == req.method = "POST" /\ req.url # "" /\ UrlParses(req.url)

\* C20 as stated: every fetch issued by discover and by compile carries a
\* timeout of its own, and a valid request is always eventually answered,
\* also when an upstream accepts the connection and never answers.
C20_AsStated ==
    /\ [](\A i \in 1..Len(fetchLog) : fetchLog[i].timeout > 0)
    /\ (ValidRequest ~> response.sent)

(***************************************************************************)
(* Claims about the size strings (checked under SpecFn)                    *)
(***************************************************************************)
FormatSizeDone == fn = "formatSize" /\ out.done

\* the numeral of q / 10, with one fractional digit; when short, a whole
\* value is written without its fraction
Tenths(q, short) ==
    ToString(q \div 10)
    \o (IF short /\ q % 10 = 0 THEN "" ELSE "." \o ToString(q % 10))

C16_AsStated ==
    (FormatSizeDone /\ arg >= 1000 /\ arg < 10000) =>
        out.value \in {Tenths(arg \div 100, TRUE) \o "k chars",
                       Tenths(arg \div 100, FALSE) \o "k chars"}

\* C16, amended: from 1000 to 9999 the value printed before "k chars" is
\* chars / 1000 rounded to the nearest tenth, halves upwards, and written
\* without a fraction when it is whole; it exceeds chars / 1000 by up to 0.05
\* and is 10 from 9950 on (4560 prints 4.6k, 9950 prints 10k, 1000 prints 1k).
C16_RoundedToTenth ==
    (FormatSizeDone /\ arg >= 1000 /\ arg < 10000) =>
        /\ \E q \in 10..100 :
               /\ out.value = Tenths(q, TRUE) \o "k chars"
               /\ 100 * q - 50 <= arg /\ arg < 100 * q + 50
        /\ arg = 4560 => out.value = "4.6k chars"
        /\ arg >= 9950 <=> out.value = "10k chars"
        /\ arg = 1000 => out.value = "1k chars"

\* C16 witness: formatSize has been applied to 9950, which prints as 10k.
C16_Witness == FormatSizeDone /\ arg = 9950 /\ out.value = "10k chars"

\* the character count a size string denotes: N for "N chars", X * 1000 for
\* "Xk chars"
DenotedChars(s) ==
    IF EndsWith(s, "k chars")
    THEN ParseFloatTimes1000(SubSeq(s, 1, Len(s) - Len("k chars")))
    ELSE ParseInt(SubSeq(s, 1, Len(s) - Len(" chars")))

\* C17: formatSize is monotonic: the count denoted by formatSize(a) is at
\* most the count denoted by formatSize(b) for a <= b; checked for b the
\* successor of a (which gives every pair of a contiguous range), b further
\* away by 10, 100, 1000 and 10000, and b at the band boundaries.
C17_FormatSizeMonotonic ==
    FormatSizeDone =>
        \A b \in {arg + 1, arg + 10, arg + 100, arg + 1000, arg + 10000, 1000, 10000} :
            b >= arg => DenotedChars(out.value) <= DenotedChars(formatSize(b))

\* C17 witness: formatSize has been applied to 9999, the last count below
\* the band boundary at 10000.
C17_Witness == FormatSizeDone /\ arg = 9999 /\ DenotedChars(out.value) = 10000

\* the count formatSize displays for chars: chars itself below 1000, the
\* nearest hundred below 10000, the nearest thousand from there on
DisplayedChars(chars) ==
    IF chars < 1000 THEN chars
    ELSE IF chars < 10000 THEN ((chars + 50) \div 100) * 100
    ELSE ((chars + 500) \div 1000) * 1000

RECURSIVE SumDisplayed(_)
SumDisplayed(sizes) ==
    IF sizes = <<>> THEN 0
    ELSE DisplayedChars(Head(sizes)) + SumDisplayed(Tail(sizes))

\* C18: the estimatedTotalSize of a report is formatSize of the sum, over
\* its pages, of the count each page's size string displays; and parsing is
\* a right inverse of formatSize on displayed values:
\* formatSize(parse(formatSize(n))) = formatSize(n).
C18_TotalSizeFromDisplayedSizes ==
    /\ (fn = "estimatedTotalSize" /\ out.done) =>
           out.value = formatSize(SumDisplayed(arg))
    /\ FormatSizeDone =>
           /\ parseSize(out.value) = DisplayedChars(arg)
           /\ formatSize(parseSize(out.value)) = out.value

\* C18 witness: the total of a 4560-character page and a 950-character page
\* is the total of the displayed 4.6k and 950, not of the true counts.
C18_Witness ==
    /\ fn = "estimatedTotalSize" /\ out.done
    /\ arg = <<4560, 950>>
    /\ out.value = "5.6k chars"

\* what each strategy of discover returned: the value of discoverSitemap when
\* one of its probes was answered, the value of discoverNavigationLinks when
\* its fetch of the seed page succeeded; nothing from a strategy that failed
SitemapFound ==
    IF sitemapTask.answeredBy > 0 THEN sitemapTask.value ELSE <<>>

NavigationFound == IF navTask.ok THEN site.navigationUrls ELSE <<>>

\* C21: in discover the first sitemap probe, the main-page fetch and the
\* navigation fetch are issued together, before any of them is awaited; with
\* the main page fetched, for every combination of outcomes of the two
\* strategies the candidate list is the seed followed by what the sitemap
\* strategy found and then what the navigation strategy found (first
\* occurrences), a failed strategy contributing nothing, and the response,
\* once sent, is a success.
C21_StrategiesFailIndependently ==
    /\ (req.route = "discover" /\ pc \in {"discovering", "analyzing"})
          => /\ Len(fetchLog) >= 3
             /\ fetchLog[1] = Fetch("sitemap", sitemapUrls(req.url)[1])
             /\ fetchLog[2] = Fetch("main", req.url)
             /\ fetchLog[3] = Fetch("navigation", req.url)
    /\ (req.route = "discover" /\ pc \in {"analyzing", "done"}
          /\ mainTask.state = "fulfilled")
          => /\ allUrls = Dedup(<<req.url>> \o SitemapFound \o NavigationFound)
             /\ allUrls[1] = req.url
             /\ (response.sent => response.status = 200 /\ response.body.success)

\* discover answered with success although every sitemap probe failed, the
\* navigation alone having found pages
C21_Witness ==
    /\ DiscoverDone /\ response.body.success
    /\ sitemapTask.answeredBy = 0
    /\ navTask.ok /\ navTask.value # <<>>
    /\ Len(allUrls) > 1

\* discover answered with success although the navigation fetch failed, the
\* sitemap alone having found pages
C21_NavigationFailedReached ==
    /\ DiscoverDone /\ response.body.success
    /\ sitemapTask.answeredBy > 0 /\ sitemapTask.value # <<>>
    /\ ~navTask.ok

\* the sitemap probes issued so far, in the order of their fetches
SitemapProbes ==
    LET logged == SelectSeq(fetchLog, LAMBDA f : f.kind = "sitemap")
    IN  [i \in 1..Len(logged) |-> logged[i].url]

\* C22: discoverSitemap probes sitemap.xml, sitemap_index.xml and
\* docs/sitemap.xml of the origin in that order, one at a time: a probe is
\* issued only when every probe before it was answered and none with a 2xx.
\* It returns the filtered <loc> URLs of the first probe answered with a 2xx,
\* also when that sitemap lists no URL, and issues no probe after it; when all
\* three fail it returns the empty list. It never rejects.
C22_FirstSitemapOnly ==
    (req.route = "discover" /\ sitemapTask # Idle) =>
        LET probes == SitemapProbes
            answers == sitemapTask.answers
            origin == Origin(req.url)
            candidates == << origin \o "/sitemap.xml",
                             origin \o "/sitemap_index.xml",
                             origin \o "/docs/sitemap.xml" >>
        IN  /\ sitemapTask.state \in {"probing", "fulfilled"}
            /\ Len(probes) <= Len(candidates)
            /\ probes = SubSeq(candidates, 1, Len(probes))
            /\ \A k \in 1..Len(answers) : answers[k] => k = Len(probes)
            /\ sitemapTask.state = "probing"
                  => Len(answers) = Len(probes) - 1
            /\ sitemapTask.state = "fulfilled"
                  => /\ Len(answers) = Len(probes)
                     /\ IF \E k \in 1..Len(answers) : answers[k]
                        THEN /\ sitemapTask.answeredBy = Len(probes)
                             /\ sitemapTask.xml \in {site.locs, <<>>}
                             /\ pc = "discovering"
                                   => sitemapTask.value =
                                        SelectSeq(sitemapTask.xml, keepSitemapUrl)
                        ELSE /\ Len(probes) = Len(candidates)
                             /\ sitemapTask.answeredBy = 0
                             /\ sitemapTask.value = <<>>

\* the first sitemap failed, the second was answered with a 2xx and lists no
\* URL: the third was never requested, and discover went on with nothing
\* from the sitemap
C22_Witness ==
    /\ req.route = "discover" /\ pc \in {"analyzing", "done"}
    /\ sitemapTask.state = "fulfilled"
    /\ sitemapTask.answers = <<FALSE, TRUE>>
    /\ sitemapTask.xml = <<>> /\ sitemapTask.value = <<>>
    /\ site.locs # <<>>
    /\ Len(SitemapProbes) = 2

\* the path segments the sitemap filter is said to look for
SitemapAllowlist ==
    {"/docs", "/api", "/guide", "/reference", "/tutorial", "/examples", "/ref/",
     "/documentation"}

SitemapBlocklist ==
    {"/blog", "/changelog", "/careers", "/about", "/contact", "/privacy", "/terms"}

\* what follows the origin in a URL, lower-cased
LowerPath(url) == ToLowerCase(SubSeq(url, Len(Origin(url)) + 1, Len(url)))

\* C23 as stated: when discoverSitemap returns from a sitemap that answered,
\* a <loc> URL is among the URLs returned if and only if its lower-cased path
\* contains a segment of the allowlist or no segment of the blocklist; the
\* host name has no part in the decision.
C23_AsStated ==
    (req.route = "discover" /\ pc = "discovering"
       /\ sitemapTask.state = "fulfilled" /\ sitemapTask.answeredBy > 0) =>
        \A i \in 1..Len(sitemapTask.xml) :
            LET path == LowerPath(sitemapTask.xml[i])
            IN  (\E k \in 1..Len(sitemapTask.value) :
                     sitemapTask.value[k] = sitemapTask.xml[i])
                <=> \/ \E a \in SitemapAllowlist : Includes(path, a)
                    \/ \A b \in SitemapBlocklist : ~Includes(path, b)

ExtractNavigationLinksDone == fn = "extractNavigationLinks" /\ out.done

\* C24 as stated: every URL extractNavigationLinks returns has exactly the
\* origin of the base URL, comes from an anchor whose text contains, in any
\* case, one of guide, api, reference, example, tutorial, docs,
\* documentation and whose href is no mailto:, no tel: and no bare
\* fragment, and occurs once in the list.
C24_AsStated ==
    ExtractNavigationLinksDone =>
        /\ NoRepeat(out.value)
        /\ \A k \in 1..Len(out.value) :
              /\ Origin(out.value[k]) = Origin(arg.baseUrl)
              /\ ~StartsWith(out.value[k], "mailto:")
              /\ ~StartsWith(out.value[k], "tel:")
              /\ \E i \in 1..Len(arg.links) :
                    /\ navigationUrlOrNull(arg.links[i], arg.baseUrl)
                           = [url |-> out.value[k]]
                    /\ ~StartsWith(arg.links[i].href, "#")
                    /\ ~StartsWith(arg.links[i].href, "mailto:")
                    /\ ~StartsWith(arg.links[i].href, "tel:")
                    /\ \E w \in 1..Len(navigationKeywords) :
                          Includes(ToLowerCase(arg.links[i].text),
                                   navigationKeywords[w])

\* C25 as stated: whenever discover answers with success, the report lists
\* a page for the seed URL, so totalPages >= 1, whatever the fetch of the
\* main-page information, the fetch for the navigation and the per-page
\* fetch of the seed answered.
C25_AsStated ==
    (DiscoverDone /\ response.body.success) =>
        LET pages == ReportedPages(response.body.data.categories)
        IN  /\ response.body.data.totalPages >= 1
            /\ \E k \in 1..Len(pages) : pages[k].url = req.url

\* C26: in every report of discover, totalPages is the number of per-page
\* fetches that succeeded and the sum of the lengths of the category lists;
\* the category names are distinct, every page stands in the list named by
\* its category field and in no other place of the report, and no URL whose
\* per-page fetch failed is reported.
C26_ReportPartitionsFetchedPages ==
    (DiscoverDone /\ response.body.success) =>
        LET data == response.body.data
            categories == data.categories
            pages == ReportedPages(categories)
            succeeded == {i \in 1..Len(pageOutcome) : pageOutcome[i].kind = "2xx"}
            SumLen[c \in 0..Len(categories)] ==
                IF c = 0 THEN 0 ELSE SumLen[c-1] + Len(categories[c][2])
        IN  /\ data.totalPages = Cardinality(succeeded)
            /\ data.totalPages = SumLen[Len(categories)]
            /\ NoRepeat(Keys(categories))
            /\ \A c \in 1..Len(categories) :
                  \A k \in 1..Len(categories[c][2]) :
                      categories[c][2][k].category = categories[c][1]
            /\ NoRepeat([k \in 1..Len(pages) |-> pages[k].url])
            /\ \A i \in succeeded :
                  \E k \in 1..Len(pages) : pages[k].url = PageFetchUrls[i]
            /\ \A i \in 1..Len(pageOutcome) :
                  i \notin succeeded
                      => \A k \in 1..Len(pages) : pages[k].url # PageFetchUrls[i]

\* a report of three pages in two categories, one of them holding two
\* pages, from a pass in which another page failed
C26_Witness ==
    /\ DiscoverDone /\ response.body.success
    /\ response.body.data.totalPages = 3
    /\ Len(response.body.data.categories) = 2
    /\ \E c \in 1..2 : Len(response.body.data.categories[c][2]) = 2
    /\ \E i \in 1..Len(pageOutcome) : pageOutcome[i].kind # "2xx"

\* C27 as stated: from the moment resetDiscovery has run (a mode button or
\* 'Neue Analyse') until the user starts a compile or a discovery, result and
\* error are empty, discoveryData is null and nothing is selected: the
\* answer to a request that was in flight at the reset is not applied.
C27_AsStated ==
    sinceReset =>
        /\ home.result = "" /\ home.error = ""
        /\ home.discoveryData = Null
        /\ home.selectedPages = {}

CompileInFlight == \E i \in 1..Len(inFlight) : inFlight[i].api = "compile"

DiscoveryInFlight == \E i \in 1..Len(inFlight) : inFlight[i].api = "discover"

\* C28: isLoading is true exactly while a compile request of the page is in
\* flight: set when handleSimpleSubmit or handleAdvancedCompile starts one,
\* cleared by the continuation whether the answer is OK, not OK or the fetch
\* rejects, and never true with no compile request in flight; likewise
\* isDiscovering and the discovery request. A completed compile request has
\* set exactly one of result and error: an OK answer sets result to its
\* content and leaves error as it was, a failure sets error to its message
\* and leaves result as it was.
C28_LoadingFollowsRequest ==
    /\ home.isLoading <=> CompileInFlight
    /\ home.isDiscovering <=> DiscoveryInFlight
    /\ lastEvent.name \in {"handleSimpleSubmit", "handleAdvancedCompile"}
          => home.isLoading
    /\ lastEvent.name = "handleDiscovery" => home.isDiscovering
    /\ lastEvent.name = "DiscoverySettles" => ~home.isDiscovering
    /\ lastEvent.name = "CompileSettles"
          => /\ ~home.isLoading
             /\ IF lastEvent.outcome.kind = "ok"
                THEN /\ home.result = lastEvent.outcome.data.content
                     /\ home.result # ""
                     /\ home.error = lastEvent.before.error
                ELSE /\ home.error = caughtMessage(lastEvent.outcome)
                     /\ home.error # ""
                     /\ home.result = lastEvent.before.result

\* a compile request started by handleAdvancedCompile has failed: isLoading
\* is cleared and error holds the message
C28_Witness ==
    /\ lastEvent.name = "CompileSettles"
    /\ lastEvent.request.handler = "handleAdvancedCompile"
    /\ lastEvent.outcome.kind = "failed"
    /\ lastEvent.before.isLoading /\ ~home.isLoading
    /\ home.error = "Failed to fetch"

\* the URLs of the pages a report lists
ReportUrls(data) ==
    LET pages == ReportedPages(data.categories)
    IN  {pages[k].url : k \in 1..Len(pages)}

\* C29: after any sequence of events of the page, selectedPages is empty
\* while discoveryData is null and otherwise holds URLs of pages of
\* discoveryData only; right after a discovery was answered OK, discoveryData
\* is the report of the answer and selectedPages is the set of the URLs of
\* all its pages; handleAdvancedCompile called with discoveryData null or
\* nothing selected sends no request and leaves the state as it is, and every
\* request it has sent carries the base URL of the report and a non-empty
\* selection of its pages.
C29_SelectionWithinDiscovery ==
    /\ home.discoveryData = Null => home.selectedPages = {}
    /\ home.discoveryData # Null
          => home.selectedPages \subseteq ReportUrls(home.discoveryData)
    /\ (lastEvent.name = "DiscoverySettles" /\ lastEvent.outcome.kind = "ok")
          => /\ home.discoveryData = lastEvent.outcome.data.data
             /\ home.selectedPages = ReportUrls(lastEvent.outcome.data.data)
    /\ (home.discoveryData = Null \/ home.selectedPages = {})
          => advancedCompile(home) = [home |-> home, requests |-> <<>>]
    /\ lastEvent.name = "handleAdvancedCompile"
          => /\ lastEvent.before.discoveryData # Null
             /\ inFlight[Len(inFlight)].body =
                   [url |-> lastEvent.before.discoveryData.baseUrl,
                    selectedPages |-> lastEvent.before.selectedPages]
             /\ lastEvent.before.selectedPages # {}
             /\ lastEvent.before.selectedPages
                   \subseteq ReportUrls(lastEvent.before.discoveryData)

\* a discovery was answered with the report of three pages in two
\* categories, and all three are selected
C29_Witness ==
    /\ lastEvent.name = "DiscoverySettles" /\ lastEvent.outcome.kind = "ok"
    /\ Len(home.discoveryData.categories) = 2
    /\ Cardinality(home.selectedPages) = 3

\* pages were deselected and a compile of the remaining selection was sent
C29_PartialSelectionSent ==
    /\ lastEvent.name = "handleAdvancedCompile"
    /\ Cardinality(lastEvent.before.selectedPages) = 1
    /\ Cardinality(ReportUrls(lastEvent.before.discoveryData)) = 3

\* C30: togglePageSelection(u) changes the membership of u in selectedPages
\* and of no other URL, and applied once more gives back the selection it
\* started from; toggleCategorySelection(pages, true) leaves every URL of
\* pages selected, toggleCategorySelection(pages, false) none of them, both
\* leave the membership of every other URL as it was and applied once more
\* change nothing; none of them changes another cell of the state of Home
\* (url, mode, discoveryData, result, error, isLoading, isDiscovering).
C30_TogglesChangeSelectionOnly ==
    /\ lastEvent.name = "togglePageSelection" =>
          LET u == lastEvent.pageUrl
              before == lastEvent.before
          IN  /\ (u \in home.selectedPages) <=> (u \notin before.selectedPages)
              /\ home.selectedPages \ {u} = before.selectedPages \ {u}
              /\ pageToggled(home.selectedPages, u) = before.selectedPages
              /\ [home EXCEPT !.selectedPages = before.selectedPages] = before
    /\ lastEvent.name = "toggleCategorySelection" =>
          LET pages == lastEvent.pages
              urls == {pages[k].url : k \in 1..Len(pages)}
              before == lastEvent.before
          IN  /\ lastEvent.selectAll => urls \subseteq home.selectedPages
              /\ ~lastEvent.selectAll => urls \cap home.selectedPages = {}
              /\ home.selectedPages \ urls = before.selectedPages \ urls
              /\ categoryToggled(home.selectedPages, pages, lastEvent.selectAll)
                     = home.selectedPages
              /\ [home EXCEPT !.selectedPages = before.selectedPages] = before

\* a selected page was deselected while two other pages stayed selected and
\* a compile request was in flight
C30_Witness ==
    /\ lastEvent.name = "togglePageSelection"
    /\ lastEvent.pageUrl \in lastEvent.before.selectedPages
    /\ Cardinality(home.selectedPages) = 2
    /\ home.isLoading

\* a category of two pages, one of them selected, was selected as a whole
C30_CategorySelectedReached ==
    /\ lastEvent.name = "toggleCategorySelection"
    /\ lastEvent.selectAll /\ Len(lastEvent.pages) = 2
    /\ \E k \in 1..2 : lastEvent.pages[k].url \in lastEvent.before.selectedPages

====
